---- MODULE Spec2Model ----
(***************************************************************************)
(* A model of ai_horoscope/backend/main.py: the POST /horoscope handler,   *)
(* the geocode cache, the local moon phase, the zodiac classifier, the     *)
(* house cusps and the local fallback generator.                           *)
(*                                                                         *)
(* Python strings are TLA+ strings (TLC evaluates Len, Head, Tail, SubSeq  *)
(* and \o on them).  The two non-ASCII characters of the source's          *)
(* literals are written in ASCII: the degree sign as "deg", the em dash    *)
(* as "--".  Python's None is the model value None.                        *)
(***************************************************************************)
EXTENDS Integers, Sequences, FiniteSets, TLC

VARIABLES
    openai_client,   \* main.py:35-40, "client" or None, fixed at import time
    geocode_cache,   \* main.py:63, dict: normalized location -> <<lat, lon, tz, timestamp>>
    now,             \* the wall clock: time.time() and datetime.utcnow(), in Unix seconds
    frame,           \* per request in flight: the position and the locals of horoscope()
    call             \* the last direct call of a pure function or of GET /moon, with its result

vars == <<openai_client, geocode_cache, now, frame, call>>

None == "None"

(***************************************************************************)
(* Bounds of the model.                                                    *)
(***************************************************************************)
\* The instant the server process starts: 2026-01-01 00:00:00 UTC.
ClockStart == 1767225600
\* How many days the clock runs in the moon-phase specification.
MaxDays == 420

(***************************************************************************)
(* str methods.                                                            *)
(***************************************************************************)
UpperChars == "ABCDEFGHIJKLMNOPQRSTUVWXYZ"
LowerChars == "abcdefghijklmnopqrstuvwxyz"

LowerOf ==
    [ c \in { SubSeq(UpperChars, i, i) : i \in 1..Len(UpperChars) } |->
        LET i == CHOOSE j \in 1..Len(UpperChars) : SubSeq(UpperChars, j, j) = c
        IN  SubSeq(LowerChars, i, i) ]

\* str.lower() on one character
LowerChar(c) == IF c \in DOMAIN LowerOf THEN LowerOf[c] ELSE c

RECURSIVE lower(_)
lower(s) == IF s = "" THEN "" ELSE LowerChar(Head(s)) \o lower(Tail(s))

\* Python's  sub in s
Contains(sub, s) ==
    \E i \in 1..(Len(s) - Len(sub) + 1) : SubSeq(s, i, i + Len(sub) - 1) = sub

IsSpace(c) == c \in {" ", "\t", "\n"}

RECURSIVE lstrip(_)
lstrip(s) == IF s # "" /\ IsSpace(Head(s)) THEN lstrip(Tail(s)) ELSE s

RECURSIVE rstrip(_)
rstrip(s) ==
    IF s # "" /\ IsSpace(SubSeq(s, Len(s), Len(s)))
    THEN rstrip(SubSeq(s, 1, Len(s) - 1))
    ELSE s

strip(s) == rstrip(lstrip(s))

\* Python truthiness of an Optional[str]: None and "" are falsy
Truthy(s) == s # None /\ s # ""

(***************************************************************************)
(* zodiac_sign, main.py:286-309.                                           *)
(***************************************************************************)
zodiac_sign_aries_from_20(month, day) ==
    IF (month = 3 /\ day >= 20) \/ (month = 4 /\ day <= 19) THEN "aries"
    ELSE IF (month = 4 /\ day >= 20) \/ (month = 5 /\ day <= 20) THEN "taurus"
    ELSE IF (month = 5 /\ day >= 21) \/ (month = 6 /\ day <= 20) THEN "gemini"
    ELSE IF (month = 6 /\ day >= 21) \/ (month = 7 /\ day <= 22) THEN "cancer"
    ELSE IF (month = 7 /\ day >= 23) \/ (month = 8 /\ day <= 22) THEN "leo"
    ELSE IF (month = 8 /\ day >= 23) \/ (month = 9 /\ day <= 22) THEN "virgo"
    ELSE IF (month = 9 /\ day >= 23) \/ (month = 10 /\ day <= 22) THEN "libra"
    ELSE IF (month = 10 /\ day >= 23) \/ (month = 11 /\ day <= 21) THEN "scorpio"
    ELSE IF (month = 11 /\ day >= 22) \/ (month = 12 /\ day <= 21) THEN "sagittarius"
    ELSE IF (month = 12 /\ day >= 22) \/ (month = 1 /\ day <= 19) THEN "capricorn"
    ELSE IF (month = 1 /\ day >= 20) \/ (month = 2 /\ day <= 18) THEN "aquarius"
    ELSE "pisces"

zodiac_sign(month, day) ==
    IF (month = 3 /\ day >= 21) \/ (month = 4 /\ day <= 19) THEN "aries"
    ELSE IF (month = 4 /\ day >= 20) \/ (month = 5 /\ day <= 20) THEN "taurus"
    ELSE IF (month = 5 /\ day >= 21) \/ (month = 6 /\ day <= 20) THEN "gemini"
    ELSE IF (month = 6 /\ day >= 21) \/ (month = 7 /\ day <= 22) THEN "cancer"
    ELSE IF (month = 7 /\ day >= 23) \/ (month = 8 /\ day <= 22) THEN "leo"
    ELSE IF (month = 8 /\ day >= 23) \/ (month = 9 /\ day <= 22) THEN "virgo"
    ELSE IF (month = 9 /\ day >= 23) \/ (month = 10 /\ day <= 22) THEN "libra"
    ELSE IF (month = 10 /\ day >= 23) \/ (month = 11 /\ day <= 21) THEN "scorpio"
    ELSE IF (month = 11 /\ day >= 22) \/ (month = 12 /\ day <= 21) THEN "sagittarius"
    ELSE IF (month = 12 /\ day >= 22) \/ (month = 1 /\ day <= 19) THEN "capricorn"
    ELSE IF (month = 1 /\ day >= 20) \/ (month = 2 /\ day <= 18) THEN "aquarius"
    ELSE "pisces"

(***************************************************************************)
(* get_local_moon_phase, main.py:133-163.                                  *)
(*                                                                         *)
(* A duration is <<seconds, microseconds>> with 0 <= microseconds < 10^6,  *)
(* as in datetime.timedelta, so that the synodic month 29.53058867 days =  *)
(* 2551442.861088 s is exact and every number stays below 2^31.  The code  *)
(* computes in double precision; over the dates of the model the exact     *)
(* value rounds to the same three decimals.                                *)
(***************************************************************************)
Million == 1000 * 1000
SecondsPerDay == 60 * 60 * 24

Dur(s, us) == <<s + (us \div Million), us % Million>>
DurMul(x, m) == Dur(x[1] * m, x[2] * m)
DurSub(x, y) == Dur(x[1] - y[1] - 1, x[2] - y[2] + Million)
DurLeq(x, y) == x[1] < y[1] \/ (x[1] = y[1] /\ x[2] <= y[2])
DurLess(x, y) == ~DurLeq(y, x)

\* synodic = 29.53058867 days (line 138), in seconds and microseconds
SynodicSeconds == 2551442
SynodicMicros == 861088
synodic == <<SynodicSeconds, SynodicMicros>>

\* ref = datetime(2000, 1, 6, 18, 14, 0) (line 136), in Unix seconds
RefNewMoon == 947182440

\* datetime.utcnow().replace(hour=12, minute=0, second=0, microsecond=0), Unix seconds
NoonOf(t) == (t \div SecondsPerDay) * SecondsPerDay + 12 * 60 * 60

\* x % synodic for a duration x >= 0
DurMod(x) ==
    LET q == CHOOSE n \in (x[1] \div (SynodicSeconds + 1))..(x[1] \div SynodicSeconds) :
                 DurLeq(DurMul(synodic, n), x) /\ DurLess(x, DurMul(synodic, n + 1))
    IN  DurSub(x, DurMul(synodic, q))

\* the next decimal digit of r / synodic, and what is left, for 0 <= r < synodic
Digit(r) == CHOOSE d \in 0..9 :
                DurLeq(DurMul(synodic, d), DurMul(r, 10))
                /\ DurLess(DurMul(r, 10), DurMul(synodic, d + 1))
Rest(r) == DurSub(DurMul(r, 10), DurMul(synodic, Digit(r)))

\* round(r / synodic, 3) in thousandths: 0..1000
RoundedPhase(r) ==
    LET r1 == Rest(r)
        r2 == Rest(r1)
        r3 == Rest(r2)
    IN  100 * Digit(r) + 10 * Digit(r1) + Digit(r2)
        + (IF DurLeq(synodic, DurMul(r3, 2)) THEN 1 ELSE 0)

\* lines 143-158: the title of a phase given in thousandths; the thresholds
\* 0.0625, 0.1875, ... are compared in ten-thousandths
PhaseTitle_no_wrap(phase) ==
    IF phase * 10 < 625 THEN "New Moon"
    ELSE IF phase * 10 < 1875 THEN "Waxing Crescent"
    ELSE IF phase * 10 < 3125 THEN "First Quarter"
    ELSE IF phase * 10 < 4375 THEN "Waxing Gibbous"
    ELSE IF phase * 10 < 5625 THEN "Full Moon"
    ELSE IF phase * 10 < 6875 THEN "Waning Gibbous"
    ELSE IF phase * 10 < 8125 THEN "Last Quarter"
    ELSE "Waning Crescent"

PhaseTitle(phase) ==
    IF phase * 10 < 625 \/ phase * 10 >= 9375 THEN "New Moon"
    ELSE IF phase * 10 < 1875 THEN "Waxing Crescent"
    ELSE IF phase * 10 < 3125 THEN "First Quarter"
    ELSE IF phase * 10 < 4375 THEN "Waxing Gibbous"
    ELSE IF phase * 10 < 5625 THEN "Full Moon"
    ELSE IF phase * 10 < 6875 THEN "Waning Gibbous"
    ELSE IF phase * 10 < 8125 THEN "Last Quarter"
    ELSE "Waning Crescent"

\* the dict returned at the clock t; moon_phase is in thousandths
get_local_moon_phase(t) ==
    LET days == Dur(NoonOf(t) - RefNewMoon, 0)
        phase == RoundedPhase(DurMod(days))
    IN  [moon_phase |-> phase, moon_phase_name |-> PhaseTitle(phase)]

(***************************************************************************)
(* Values shared by the handler's steps.                                   *)
(*                                                                         *)
(* An Optional[str] is a string or None.  An optional number or an         *)
(* optional JSON value is <<>> (Python's None) or <<v>>, since TLC does    *)
(* not compare a number with a string.  A dict is a function on its keys.  *)
(***************************************************************************)
Raise == "raise"
Nothing == << >>
Some(v) == <<v>>

\* dict.get(key, default)
Get(d, key, default) == IF key \in DOMAIN d THEN d[key] ELSE default

\* dict.update(u)
Update(d, u) == [k \in (DOMAIN d) \cup (DOMAIN u) |-> IF k \in DOMAIN u THEN u[k] ELSE d[k]]

EmptyDict == [k \in {} |-> Nothing]

RECURSIVE Join(_, _)
\* sep.join(parts)
Join(sep, parts) ==
    IF parts = << >> THEN ""
    ELSE IF Len(parts) = 1 THEN parts[1]
    ELSE parts[1] \o sep \o Join(sep, Tail(parts))

Digits == "0123456789"
IsDigit(c) == \E i \in 1..10 : SubSeq(Digits, i, i) = c
DigitVal(c) == (CHOOSE i \in 1..10 : SubSeq(Digits, i, i) = c) - 1
At(s, i) == SubSeq(s, i, i)

RECURSIVE IntOf(_)
\* int() of a string of digits
IntOf(s) == IF s = "" THEN 0 ELSE 10 * IntOf(SubSeq(s, 1, Len(s) - 1)) + DigitVal(At(s, Len(s)))

AllDigits(s) == \A i \in 1..Len(s) : IsDigit(At(s, i))

IsLeap(y) == (y % 4 = 0 /\ y % 100 # 0) \/ y % 400 = 0
DaysInMonth(y, m) ==
    IF m = 2 THEN (IF IsLeap(y) THEN 29 ELSE 28)
    ELSE IF m \in {4, 6, 9, 11} THEN 30 ELSE 31

NoDate == [year |-> 0, month |-> 0, day |-> 0]

\* date.fromisoformat(birthday), main.py:350, for the YYYY-MM-DD form the
\* handler expects; NoDate stands for the exception (a TypeError for None,
\* a ValueError for any other text)
date_fromisoformat(s) ==
    IF s = None \/ Len(s) # 10 THEN NoDate
    ELSE IF At(s, 5) # "-" \/ At(s, 8) # "-" THEN NoDate
    ELSE IF ~(AllDigits(SubSeq(s, 1, 4)) /\ AllDigits(SubSeq(s, 6, 7)) /\ AllDigits(SubSeq(s, 9, 10)))
    THEN NoDate
    ELSE LET y == IntOf(SubSeq(s, 1, 4))
             m == IntOf(SubSeq(s, 6, 7))
             d == IntOf(SubSeq(s, 9, 10))
         IN  IF y >= 1 /\ m \in 1..12 /\ d >= 1 /\ d <= DaysInMonth(y, m)
             THEN [year |-> y, month |-> m, day |-> d]
             ELSE NoDate

\* whether datetime.fromisoformat(f"{bday.isoformat()}T{birth_time}") parses,
\* main.py:188 and 250, for the HH:MM form of the handler's form field
TimeParses(birth_time) ==
    /\ Len(birth_time) = 5
    /\ At(birth_time, 3) = ":"
    /\ AllDigits(SubSeq(birth_time, 1, 2)) /\ AllDigits(SubSeq(birth_time, 4, 5))
    /\ IntOf(SubSeq(birth_time, 1, 2)) < 24
    /\ IntOf(SubSeq(birth_time, 4, 5)) < 60

(***************************************************************************)
(* geocode_location, main.py:62-90.                                        *)
(***************************************************************************)
GEOCODE_TTL == 60 * 60 * 24 * 7

\* line 70
GeoKey(location) == lower(strip(location))

\* lines 72-73: cached and now - cached[3] < GEOCODE_TTL
CacheHit_never_expires(cache, key, t) == key \in DOMAIN cache

CacheHit(cache, key, t) == key \in DOMAIN cache /\ t - cache[key][4] < GEOCODE_TTL

\* line 89: geocode_cache[key] = (lat, lon, tz_name, now)
CachePut_keeps_old_timezone(cache, key, entry) ==
    [k \in (DOMAIN cache) \cup {key} |->
        IF k # key THEN cache[k]
        ELSE IF key \in DOMAIN cache
             THEN << entry[1], entry[2], cache[key][3], entry[4] >>
        ELSE entry]

CachePut(cache, key, entry) ==
    [k \in (DOMAIN cache) \cup {key} |-> IF k = key THEN entry ELSE cache[k]]

\* line 88: tf.timezone_at(lat=lat, lng=lon) or "UTC"
TzOrUTC(tz) == IF Truthy(tz) THEN tz ELSE "UTC"

(***************************************************************************)
(* degree_to_sign_name, compute_natal_summary and compute_house_cusps,     *)
(* main.py:166-284.  A longitude is a whole number of hundredths of a      *)
(* degree.  The model's longitudes never sit on a rounding tie (a last     *)
(* digit 5), where the binary representation of the float decides.         *)
(***************************************************************************)
SignNames == << "aries", "taurus", "gemini", "cancer", "leo", "virgo", "libra",
                "scorpio", "sagittarius", "capricorn", "aquarius", "pisces" >>

\* lines 181-182: signs[int((deg % 360) // 30)]
degree_to_sign_name(deg) == SignNames[((deg % 36000) \div 3000) + 1]

\* round(x, 1) and f"{x:.1f}" of a value in hundredths: the value in tenths
Round1(h) == (h + 5) \div 10

\* f"{x:.1f}"
Fmt1(h) == ToString(Round1(h) \div 10) \o "." \o ToString(Round1(h) % 10)

PlanetNames == << "Sun", "Moon", "Mercury", "Venus", "Mars", "Jupiter", "Saturn",
                  "Uranus", "Neptune", "Pluto" >>

RECURSIVE PlanetParts(_, _)
\* lines 233-240: the parts of the planets whose swe.calc_ut does not raise
PlanetParts(planets, i) ==
    IF i > Len(PlanetNames) THEN << >>
    ELSE LET rest == PlanetParts(planets, i + 1)
             lonp == planets[i]
         IN  IF lonp = Nothing THEN rest
             ELSE << PlanetNames[i] \o " in " \o degree_to_sign_name(lonp[1])
                     \o " (" \o Fmt1(lonp[1]) \o "deg)" >> \o rest

\* The ephemeris of one request: eph.houses is Nothing when swe.houses raises
\* and <<[cusps, asc]>> otherwise; eph.planets[i] is Nothing when swe.calc_ut
\* raises for planet i and <<longitude>> otherwise.
\* Returns Raise for an exception leaving the function.
compute_natal_summary(birth_time, eph) ==
    IF ~TimeParses(birth_time) THEN Raise
    ELSE LET asc_part == IF eph.houses = Nothing THEN << >>
                         ELSE << "Ascendant: " \o degree_to_sign_name(eph.houses[1].asc)
                                 \o " (" \o Fmt1(eph.houses[1].asc) \o "deg)" >>
             planet_parts == PlanetParts(eph.planets, 1)
             parts == asc_part \o
                      (IF planet_parts # << >>
                       THEN << "Planets: " \o Join(", ", SubSeq(planet_parts, 1, 6)) >>
                       ELSE << >>)
         IN  Join("; ", parts)

Min(a, b) == IF a < b THEN a ELSE b

\* lines 268-271, as 1-based positions in cusps
CuspIndices(cusps) ==
    IF Len(cusps) >= 13 THEN [i \in 1..12 |-> i + 1]
    ELSE [i \in 1..Min(12, Len(cusps)) |-> i]

\* lines 273-284
HouseList(cusps) ==
    LET indices == CuspIndices(cusps)
    IN  [n \in 1..Len(indices) |->
            LET deg == cusps[indices[n]]
            IN  [house |-> n, sign |-> degree_to_sign_name(deg), degree |-> Round1(deg % 3000)]]

\* <<"raise">> for an exception leaving the function, <<"ok", houses>> otherwise
compute_house_cusps(birth_time, eph) ==
    IF ~TimeParses(birth_time) \/ eph.houses = Nothing THEN << Raise >>
    ELSE << "ok", HouseList(eph.houses[1].cusps) >>

(***************************************************************************)
(* fetch_astronomy, main.py:93-130.  The upstream's answer is              *)
(* [kind |-> "error"] (a network error, the 10 s timeout, a body that is   *)
(* no JSON object), [kind |-> "non200"] or [kind |-> "ok", daily |-> d]    *)
(* with d the dict of lists under "daily"; a list's entry is <<v>> or, for *)
(* a JSON null, <<>>.                                                      *)
(***************************************************************************)
\* lines 113-115
first_value(daily, key) ==
    LET values == Get(daily, key, << >>)
    IN  IF values # << >> THEN values[1] ELSE Nothing

\* the result of get_local_moon_phase as a dict of optional values
LocalMoon(t) ==
    LET m == get_local_moon_phase(t)
    IN  [moon_phase |-> Some(m.moon_phase), moon_phase_name |-> Some(m.moon_phase_name)]

fetch_astronomy_keeps_only_local(upstream, t) ==
    IF upstream.kind # "ok" THEN LocalMoon(t)
    ELSE LET astronomy == [ sunrise    |-> first_value(upstream.daily, "sunrise"),
                            sunset     |-> first_value(upstream.daily, "sunset"),
                            moonrise   |-> first_value(upstream.daily, "moonrise"),
                            moonset    |-> first_value(upstream.daily, "moonset"),
                            moon_phase |-> first_value(upstream.daily, "moon_phase"),
                            day_length |-> first_value(upstream.daily, "day_length") ]
         IN  IF astronomy.moon_phase = Nothing
             THEN LocalMoon(t)
             ELSE astronomy

fetch_astronomy(upstream, t) ==
    IF upstream.kind # "ok" THEN LocalMoon(t)
    ELSE LET astronomy == [ sunrise    |-> first_value(upstream.daily, "sunrise"),
                            sunset     |-> first_value(upstream.daily, "sunset"),
                            moonrise   |-> first_value(upstream.daily, "moonrise"),
                            moonset    |-> first_value(upstream.daily, "moonset"),
                            moon_phase |-> first_value(upstream.daily, "moon_phase"),
                            day_length |-> first_value(upstream.daily, "day_length") ]
         IN  IF astronomy.moon_phase = Nothing
             THEN Update(astronomy, LocalMoon(t))
             ELSE astronomy

(***************************************************************************)
(* local_fallback, main.py:463-548.  rnd is the sequence of numbers the    *)
(* seeded random source hands to the successive random.choice calls;       *)
(* choice(seq) with the number r picks seq[r mod len(seq)].                *)
(***************************************************************************)
Choice(seq, r) == seq[(r % Len(seq)) + 1]

\* s.split(sep) for a one-character sep
Split(s, sep) ==
    LET cuts == { i \in 1..Len(s) : At(s, i) = sep }
        \* where segment k starts and ends
        Cut(k) == IF k = 0 THEN 0
                  ELSE IF k > Cardinality(cuts) THEN Len(s) + 1
                  ELSE CHOOSE i \in cuts : Cardinality({ j \in cuts : j < i }) = k - 1
    IN  [ k \in 1..(Cardinality(cuts) + 1) |-> SubSeq(s, Cut(k - 1) + 1, Cut(k) - 1) ]

NonBlank(f) == strip(f) # ""

\* lines 472-476
transit_keywords ==
    << "Venus trine Mars", "Mercury retrograde", "Moon sextile Jupiter", "Sun square Saturn",
       "Mars conjunct Pluto", "Jupiter opposite Neptune", "Saturn sextile Uranus", "Moon trine Venus",
       "Sun conjunct Mercury", "Venus square Neptune", "Mars sextile Saturn", "Jupiter trine Sun" >>

\* lines 486-541: the three buckets' candidate sentences
serious_openings(display, sign, transit, chart_feature) ==
    << display \o "Today, " \o sign \o " energy is shaped by " \o transit \o ", especially as it interacts with your " \o chart_feature \o ".",
       display \o sign \o " focus favors consistency and discipline, with " \o transit \o " influencing your " \o chart_feature \o ".",
       display \o "Your " \o sign \o " instincts lean toward structure and follow-through, as " \o transit \o " activates your " \o chart_feature \o ".",
       display \o "A grounded mood prevails for " \o sign \o ", thanks to " \o transit \o " and your " \o chart_feature \o "." >>

serious_advices(display, sign, transit, chart_feature) ==
    << "Choose one small task and finish it -- progress builds momentum, especially for your " \o chart_feature \o ".",
       "Pick a single priority and complete it without multitasking; your " \o chart_feature \o " will benefit.",
       "Commit to one simple routine and keep it clean and doable, honoring your " \o chart_feature \o ".",
       "Focus on practical goals and avoid distractions; " \o transit \o " supports your " \o chart_feature \o "." >>

serious_whys(display, sign, transit, chart_feature) ==
    << transit \o " brings clarity and rewards measured effort, especially for your " \o chart_feature \o ".",
       "Clarity grows when your effort is focused and measured, activating your " \o chart_feature \o ".",
       "Small, steady wins reduce friction and increase confidence in your " \o chart_feature \o ".",
       "This keeps stress low and creates clear results to build on, especially under " \o transit \o " and your " \o chart_feature \o "." >>

inspirational_openings(display, sign, transit, chart_feature) ==
    << display \o "The stars nudge a quiet confidence in your " \o sign \o " nature today, as " \o transit \o " highlights your " \o chart_feature \o ".",
       display \o "Your " \o sign \o " spark feels brighter, like a candle finding fresh air as " \o transit \o " energizes your " \o chart_feature \o ".",
       display \o "A hopeful current runs through your " \o sign \o " spirit, inspired by " \o transit \o " and your " \o chart_feature \o ".",
       display \o "Momentum builds for " \o sign \o " as " \o transit \o " opens new possibilities for your " \o chart_feature \o "." >>

inspirational_advices(display, sign, transit, chart_feature) ==
    << "Try something that stretches you a little -- a short, bold step will teach you more than a big plan, especially for your " \o chart_feature \o ".",
       "Let a small brave action open the door to a bigger story; your " \o chart_feature \o " is ready.",
       "Take one gentle leap and let it echo through your day, guided by your " \o chart_feature \o ".",
       "Embrace change and let inspiration guide you; " \o transit \o " empowers your " \o chart_feature \o "." >>

inspirational_whys(display, sign, transit, chart_feature) ==
    << transit \o " reveals strengths and reduces fear of failure, especially for your " \o chart_feature \o ".",
       "Momentum arrives when you choose possibility over perfection, activating your " \o chart_feature \o ".",
       "A tiny risk can light a path you did not know existed, especially with " \o transit \o " energizing your " \o chart_feature \o ".",
       "Today is notable for " \o sign \o " because " \o transit \o " encourages growth in your " \o chart_feature \o "." >>

playful_openings(display, sign, transit, chart_feature) ==
    << display \o "Your " \o sign \o " vibe today is playful and a little impatient, with " \o transit \o " stirring your " \o chart_feature \o ".",
       display \o "Your " \o sign \o " mood is mischievous, like it had too much coffee -- blame " \o transit \o " for your " \o chart_feature \o "!",
       display \o "Your " \o sign \o " energy is bouncy and slightly chaotic, thanks to " \o transit \o " and your " \o chart_feature \o ".",
       display \o "A quirky twist for " \o sign \o " as " \o transit \o " adds excitement to your " \o chart_feature \o "." >>

playful_advices(display, sign, transit, chart_feature) ==
    << "Do one unexpected, harmless thing that sparks joy -- a tiny risk with upside for your " \o chart_feature \o ".",
       "Try a small plot twist in your routine and see what it unlocks for your " \o chart_feature \o ".",
       "Give yourself one goofy detour and keep the rest simple, honoring your " \o chart_feature \o ".",
       "Let spontaneity lead the way and enjoy the ride; " \o transit \o " energizes your " \o chart_feature \o "." >>

playful_whys(display, sign, transit, chart_feature) ==
    << transit \o " breaks routine and creates space for new opportunities in your " \o chart_feature \o ".",
       "Surprise adds fuel to your momentum without derailing the day, especially for your " \o chart_feature \o ".",
       "A playful shake-up makes the ordinary feel magnetic, especially with " \o transit \o " in play for your " \o chart_feature \o ".",
       "Today is notable for " \o sign \o " because " \o transit \o " brings unexpected fun to your " \o chart_feature \o "." >>

\* lines 485, 504, 523: which branch builds the candidates
ToneBucket_inspir_first(tone) ==
    IF Truthy(tone) /\ Contains("inspir", lower(tone)) THEN "inspirational"
    ELSE IF Truthy(tone) /\ Contains("serious", lower(tone)) THEN "serious"
    ELSE "playful"

ToneBucket(tone) ==
    IF Truthy(tone) /\ Contains("serious", lower(tone)) THEN "serious"
    ELSE IF Truthy(tone) /\ Contains("inspir", lower(tone)) THEN "inspirational"
    ELSE "playful"

Openings(bucket, display, sign, transit, chart_feature) ==
    IF bucket = "serious" THEN serious_openings(display, sign, transit, chart_feature)
    ELSE IF bucket = "inspirational" THEN inspirational_openings(display, sign, transit, chart_feature)
    ELSE playful_openings(display, sign, transit, chart_feature)

Advices(bucket, display, sign, transit, chart_feature) ==
    IF bucket = "serious" THEN serious_advices(display, sign, transit, chart_feature)
    ELSE IF bucket = "inspirational" THEN inspirational_advices(display, sign, transit, chart_feature)
    ELSE playful_advices(display, sign, transit, chart_feature)

Whys(bucket, display, sign, transit, chart_feature) ==
    IF bucket = "serious" THEN serious_whys(display, sign, transit, chart_feature)
    ELSE IF bucket = "inspirational" THEN inspirational_whys(display, sign, transit, chart_feature)
    ELSE playful_whys(display, sign, transit, chart_feature)

NoFallback == [ used |-> FALSE, display |-> "", transit |-> "", chart_feature |-> "",
                opening |-> "", advice |-> "", why |-> "", natal_hint |-> "", text |-> "" ]

\* the locals of local_fallback when it returns, and the text it returns
local_fallback_draws_for_default(name, sign, tone, natal_summary, rnd) ==
    LET display == IF Truthy(name) THEN name \o ", " ELSE ""
        transit == Choice(transit_keywords, rnd[1])
        chart_features == IF Truthy(natal_summary)
                          THEN SelectSeq(Split(natal_summary, ";"), NonBlank)
                          ELSE << >>
        chart_feature == IF chart_features # << >>
                         THEN Choice(chart_features, rnd[2])
                         ELSE "Ascendant in " \o sign
        drawn == 2
        bucket == ToneBucket(tone)
        opening == Choice(Openings(bucket, display, sign, transit, chart_feature), rnd[drawn + 1])
        advice == Choice(Advices(bucket, display, sign, transit, chart_feature), rnd[drawn + 2])
        why == Choice(Whys(bucket, display, sign, transit, chart_feature), rnd[drawn + 3])
        natal_hint == IF Truthy(natal_summary) THEN " (" \o natal_summary \o ")" ELSE ""
    IN  [ used |-> TRUE, display |-> display, transit |-> transit,
          chart_feature |-> chart_feature, opening |-> opening, advice |-> advice,
          why |-> why, natal_hint |-> natal_hint,
          text |-> opening \o " " \o advice \o natal_hint \o " " \o why ]

local_fallback(name, sign, tone, natal_summary, rnd) ==
    LET display == IF Truthy(name) THEN name \o ", " ELSE ""
        transit == Choice(transit_keywords, rnd[1])
        chart_features == IF Truthy(natal_summary)
                          THEN SelectSeq(Split(natal_summary, ";"), NonBlank)
                          ELSE << >>
        chart_feature == IF chart_features # << >>
                         THEN Choice(chart_features, rnd[2])
                         ELSE "Ascendant in " \o sign
        drawn == IF chart_features # << >> THEN 2 ELSE 1
        bucket == ToneBucket(tone)
        opening == Choice(Openings(bucket, display, sign, transit, chart_feature), rnd[drawn + 1])
        advice == Choice(Advices(bucket, display, sign, transit, chart_feature), rnd[drawn + 2])
        why == Choice(Whys(bucket, display, sign, transit, chart_feature), rnd[drawn + 3])
        natal_hint == IF Truthy(natal_summary) THEN " (" \o natal_summary \o ")" ELSE ""
    IN  [ used |-> TRUE, display |-> display, transit |-> transit,
          chart_feature |-> chart_feature, opening |-> opening, advice |-> advice,
          why |-> why, natal_hint |-> natal_hint,
          text |-> opening \o " " \o advice \o natal_hint \o " " \o why ]

(***************************************************************************)
(* The primary generator call and its error handling, main.py:438-553.     *)
(* A completion is [kind |-> "ok", text |-> content] with content a string *)
(* or None, or [kind |-> "error", text |-> str(e)] for an exception of the *)
(* client.                                                                 *)
(***************************************************************************)
NotConfigured == [kind |-> "error", text |-> "OpenAI client not configured"]

\* str(e) of the exception the try block ends with, None when it ends without
ErrText(completion) ==
    IF completion.kind = "error" THEN completion.text
    ELSE IF completion.text = None THEN "'NoneType' object has no attribute 'strip'"
    ELSE None

\* line 462
UseFallback_quota_case_sensitive(err_text) ==
    \/ Contains("quota", err_text)
    \/ Contains("429", err_text)
    \/ Contains("insufficient_quota", err_text)
    \/ Contains("not configured", lower(err_text))
    \/ Contains("openai", lower(err_text))

UseFallback(err_text) ==
    \/ Contains("quota", lower(err_text))
    \/ Contains("429", err_text)
    \/ Contains("insufficient_quota", err_text)
    \/ Contains("not configured", lower(err_text))
    \/ Contains("openai", lower(err_text))

(***************************************************************************)
(* POST /horoscope, main.py:324-569.  The handler is a coroutine: frame[p] *)
(* holds its position and its locals for the request p in flight.  One     *)
(* action is one stretch of the handler between two exchanges with an      *)
(* external collaborator: the request's arrival, the geocoder's answer,    *)
(* the ephemeris computation, the astronomy service's answer, the          *)
(* generator's answer, the coroutine's end.  The prompt sent to the        *)
(* generator (lines 404-436) reaches no state and is not modelled.         *)
(***************************************************************************)
Procs == {1, 2}

NoResponse == [ status |-> 0, kind |-> "none", detail |-> "", horoscope |-> "",
                astronomy |-> EmptyDict, houses |-> << >> ]

\* raise HTTPException(status_code, detail)
HTTPException(status, detail) ==
    [ status |-> status, kind |-> "error", detail |-> detail, horoscope |-> "",
      astronomy |-> EmptyDict, houses |-> << >> ]

\* lines 555-569: JSONResponse(response_payload) or the rendered index.html,
\* which embeds the generated text
Respond(accept, xrw, generated, astronomy_data, houses) ==
    IF Contains("application/json", accept) \/ xrw = "XMLHttpRequest"
    THEN [ status |-> 200, kind |-> "json", detail |-> "", horoscope |-> generated,
           astronomy |-> astronomy_data, houses |-> houses ]
    ELSE [ status |-> 200, kind |-> "html", detail |-> "", horoscope |-> generated,
           astronomy |-> EmptyDict, houses |-> << >> ]

IdleFrame ==
    [ pc |-> "idle", accept |-> "", xrw |-> "",
      name |-> None, birthday |-> None, birth_time |-> None, birth_location |-> None,
      tone |-> None, bday |-> NoDate, sign |-> None,
      key |-> None, started |-> 0, cached |-> Nothing,
      lat |-> Nothing, lon |-> Nothing, tz_name |-> None,
      natal_summary |-> None, houses |-> << >>, astronomy_data |-> EmptyDict,
      err_text |-> None, fallback |-> NoFallback, response |-> NoResponse ]

\* lines 348-352 and 376-377: the detail of the 400 the checks raise, "" when
\* they pass; bday is the parsed birthday, NoDate when it does not parse
Validation_time_and_location(bday, birth_time, birth_location) ==
    IF bday = NoDate THEN "Invalid birthday format"
    ELSE IF ~Truthy(birth_time) /\ ~Truthy(birth_location)
         THEN "Both birth_time and birth_location are required"
    ELSE ""

Validation(bday, birth_time, birth_location) ==
    IF bday = NoDate THEN "Invalid birthday format"
    ELSE IF ~Truthy(birth_time) \/ ~Truthy(birth_location)
         THEN "Both birth_time and birth_location are required"
    ELSE ""

\* line 72: geocode_cache.get(key)
Cached(cache, key) == IF key \in DOMAIN cache THEN Some(cache[key]) ELSE Nothing

\* lines 331-402 up to the geocoder's request: the payload is read, the
\* birthday parsed, the required fields checked, the cache looked up
Receive(p, Requests) ==
    /\ frame[p].pc = "idle"
    /\ \E req \in Requests :
        LET payload == req.payload
            name == Get(payload, "name", None)
            birthday == Get(payload, "birthday", None)
            birth_time == Get(payload, "birth_time", None)
            birth_location == Get(payload, "birth_location", None)
            tone == Get(payload, "tone", "funny")
            bday == date_fromisoformat(birthday)
            read == [ IdleFrame EXCEPT !.accept = req.accept, !.xrw = req.xrw,
                          !.name = name, !.birthday = birthday, !.birth_time = birth_time,
                          !.birth_location = birth_location, !.tone = tone ]
            verdict == Validation(bday, birth_time, birth_location)
            parsed == IF bday = NoDate THEN read
                      ELSE [ read EXCEPT !.bday = bday,
                                 !.sign = zodiac_sign(bday.month, bday.day) ]
            key == GeoKey(birth_location)
        IN  IF verdict # ""
            THEN frame' = [frame EXCEPT ![p] = [ parsed EXCEPT !.pc = "done",
                              !.response = HTTPException(400, verdict) ]]
            ELSE IF CacheHit(geocode_cache, key, now)
            THEN frame' = [frame EXCEPT ![p] = [ parsed EXCEPT !.pc = "chart",
                              !.lat = Some(geocode_cache[key][1]),
                              !.lon = Some(geocode_cache[key][2]),
                              !.tz_name = geocode_cache[key][3] ]]
            ELSE frame' = [frame EXCEPT ![p] = [ parsed EXCEPT !.pc = "geocoding",
                              !.key = key, !.started = now,
                              !.cached = Cached(geocode_cache, key) ]]
    /\ UNCHANGED <<openai_client, geocode_cache, now, call>>

\* lines 80-90 and 380-386: the geocoder answers; key, started (the now of
\* line 71) and cached are geocode_location's locals and end with it.  answer.kind is "non200",
\* "empty" (200 and no candidate), "error" (a network error or the 10 s
\* timeout: an httpx exception) or "ok" with the first candidate's lat and
\* lon and what tf.timezone_at gives for them
GeoReply(p, Answers) ==
    /\ frame[p].pc = "geocoding"
    /\ \E answer \in Answers :
        LET f == [frame[p] EXCEPT !.key = None, !.started = 0, !.cached = Nothing] IN
        IF answer.kind = "non200"
        THEN /\ frame' = [frame EXCEPT ![p] = [ f EXCEPT !.pc = "done",
                             !.response = HTTPException(502, "Geocoding service error") ]]
             /\ UNCHANGED geocode_cache
        ELSE IF answer.kind = "empty"
        THEN /\ frame' = [frame EXCEPT ![p] = [ f EXCEPT !.pc = "done",
                             !.response = HTTPException(400, "Could not geocode birth location") ]]
             /\ UNCHANGED geocode_cache
        ELSE IF answer.kind = "error"
        THEN /\ frame' = [frame EXCEPT ![p] = [ f EXCEPT !.pc = "generate",
                             !.lat = Nothing, !.lon = Nothing, !.tz_name = "UTC" ]]
             /\ UNCHANGED geocode_cache
        ELSE LET tz_name == TzOrUTC(answer.tz) IN
             /\ geocode_cache' = CachePut(geocode_cache, frame[p].key,
                                          << answer.lat, answer.lon, tz_name, frame[p].started >>)
             /\ frame' = [frame EXCEPT ![p] = [ f EXCEPT !.pc = "chart",
                             !.lat = Some(answer.lat), !.lon = Some(answer.lon),
                             !.tz_name = tz_name ]]
    /\ UNCHANGED <<openai_client, now, call>>

\* lines 388-397: the natal summary and the house cusps, each best-effort
Chart(p, Ephemerides) ==
    /\ frame[p].pc = "chart"
    /\ \E eph \in Ephemerides :
        LET f == frame[p]
            natal == compute_natal_summary(f.birth_time, eph)
            cusps == compute_house_cusps(f.birth_time, eph)
        IN  frame' = [frame EXCEPT ![p] = [ f EXCEPT !.pc = "astronomy",
                          !.natal_summary = IF natal = Raise THEN None ELSE natal,
                          !.houses = IF cusps[1] = Raise THEN << >> ELSE cusps[2] ]]
    /\ UNCHANGED <<openai_client, geocode_cache, now, call>>

\* lines 399-402: the astronomy service answers
AstroReply(p, Upstreams) ==
    /\ frame[p].pc = "astronomy"
    /\ \E upstream \in Upstreams :
        frame' = [frame EXCEPT ![p] = [ frame[p] EXCEPT !.pc = "generate",
                      !.astronomy_data = fetch_astronomy(upstream, now) ]]
    /\ UNCHANGED <<openai_client, geocode_cache, now, call>>

\* lines 438-569: the generator is called, or is not configured; its error
\* is answered by the local fallback or by a 502
Generate(p, Completions, Rnds) ==
    /\ frame[p].pc = "generate"
    /\ \E completion \in (IF openai_client = None THEN {NotConfigured} ELSE Completions),
          rnd \in Rnds :
        LET f == frame[p]
            err_text == ErrText(completion)
        IN  IF err_text = None
            THEN frame' = [frame EXCEPT ![p] = [ f EXCEPT !.pc = "done",
                              !.response = Respond(f.accept, f.xrw, strip(completion.text),
                                                   f.astronomy_data, f.houses) ]]
            ELSE IF UseFallback(err_text)
            THEN LET fb == local_fallback(f.name, f.sign, f.tone, f.natal_summary, rnd)
                 IN  frame' = [frame EXCEPT ![p] = [ f EXCEPT !.pc = "done",
                                   !.err_text = err_text, !.fallback = fb,
                                   !.response = Respond(f.accept, f.xrw, fb.text,
                                                        f.astronomy_data, f.houses) ]]
            ELSE frame' = [frame EXCEPT ![p] = [ f EXCEPT !.pc = "done",
                               !.err_text = err_text,
                               !.response = HTTPException(502, "OpenAI API error: " \o err_text) ]]
    /\ UNCHANGED <<openai_client, geocode_cache, now, call>>

\* the response is sent and the coroutine's locals are gone
Return(p) ==
    /\ frame[p].pc = "done"
    /\ frame' = [frame EXCEPT ![p] = IdleFrame]
    /\ UNCHANGED <<openai_client, geocode_cache, now, call>>

(***************************************************************************)
(* GET /moon, main.py:318-321, and the direct calls of the pure functions. *)
(***************************************************************************)
NoCall == [fn |-> "none"]

moon_phase ==
    /\ call' = [fn |-> "moon_phase", at |-> now, astronomy |-> get_local_moon_phase(now)]
    /\ UNCHANGED <<openai_client, geocode_cache, now, frame>>

CallZodiacSign ==
    /\ call.fn = "zodiac_sign" /\ call.ret = None
    /\ call' = [call EXCEPT !.ret = zodiac_sign(call.month, call.day)]
    /\ UNCHANGED <<openai_client, geocode_cache, now, frame>>

CallPhaseTitle ==
    /\ call.fn = "phase_title" /\ call.ret = None
    /\ call' = [call EXCEPT !.ret = PhaseTitle(call.phase)]
    /\ UNCHANGED <<openai_client, geocode_cache, now, frame>>

\* compute_house_cusps called with the cusp array swe.houses returned; ret is
\* << >> until it returns
CallHouseCusps ==
    /\ call.fn = "compute_house_cusps" /\ call.ret = << >>
    /\ call' = [call EXCEPT !.ret =
                   compute_house_cusps(call.birth_time,
                                       [houses |-> Some([cusps |-> call.cusps, asc |-> call.cusps[1]]),
                                        planets |-> << >>])]
    /\ UNCHANGED <<openai_client, geocode_cache, now, frame>>

\* fetch_astronomy called at the clock's instant, the upstream answering
CallFetchAstronomy(Upstreams) ==
    /\ \E upstream \in Upstreams :
          call' = [fn |-> "fetch_astronomy", upstream |-> upstream, at |-> now,
                   ret |-> fetch_astronomy(upstream, now)]
    /\ UNCHANGED <<openai_client, geocode_cache, now, frame>>

\* local_fallback called with the draws rnd; ret.used is FALSE until it returns
CallLocalFallback ==
    /\ call.fn = "local_fallback" /\ ~call.ret.used
    /\ call' = [call EXCEPT !.ret = local_fallback(call.name, call.sign, call.tone,
                                                   call.natal_summary, call.rnd)]
    /\ UNCHANGED <<openai_client, geocode_cache, now, frame>>

\* the clock reaches a later instant
Tick(Instants) ==
    /\ \E t \in Instants : t > now /\ now' = t
    /\ call' = NoCall
    /\ UNCHANGED <<openai_client, geocode_cache, frame>>

(***************************************************************************)
(* The inputs: what a client may send and what the collaborators may       *)
(* answer.                                                                 *)
(***************************************************************************)
\* The longest cusp array swe.houses hands back in the model.
MaxCusps == 14
\* The largest number the random source hands to a random.choice.
MaxDraw == 1
\* The largest phase, in thousandths, a direct call of the naming is given.
MaxPhase == 1000
\* How many cache lifetimes the clock runs in the cache specification.
MaxWeeks == 1

Absent == "Absent"
PayloadKeys == << "name", "birthday", "birth_time", "birth_location", "tone" >>

\* the JSON body with the keys whose value is not Absent; None is a JSON null
Payload(vals) ==
    [ k \in { PayloadKeys[i] : i \in { j \in 1..5 : vals[j] # Absent } } |->
        vals[CHOOSE i \in 1..5 : PayloadKeys[i] = k] ]

Request(name, birthday, birth_time, birth_location, tone, accept) ==
    [ payload |-> Payload(<< name, birthday, birth_time, birth_location, tone >>),
      accept |-> accept, xrw |-> "" ]

Names == { None, "Ana" }
Birthdays == { Absent, None, "not-a-date", "1990-06-15", "2000-03-21", "2001-02-29" }
BirthTimes == { Absent, None, "", "14:30", "noon" }
Locations == { Absent, None, "", "Paris, France", "  PARIS, france " }
Tones == { Absent, None, "", "funny", "Serious Thoughts", "inspiring",
           "Inspired but SERIOUS", "seriou" }
Accepts == { "application/json", "text/html" }

DefaultRequest == Request("Ana", "1990-06-15", "14:30", "Paris, France", "funny", "application/json")

GeoOk(lat, lon, tz) == [kind |-> "ok", lat |-> lat, lon |-> lon, tz |-> tz]
GeoFail(kind) == [kind |-> kind, lat |-> 0, lon |-> 0, tz |-> None]
\* coordinates in hundredths of a degree
DefaultAnswer == GeoOk(4886, 235, "Europe/Paris")
AllAnswers == { DefaultAnswer, GeoOk(4885, 234, None),
                GeoFail("non200"), GeoFail("empty"), GeoFail("error") }

CuspsOf(n) == [i \in 1..n |-> (1234 + 3000 * (i - 1)) % 36000]
AllPlanets == [i \in 1..10 |-> Some((3456 * i + 122) % 36000)]
NoPlanets == [i \in 1..10 |-> Nothing]
WithoutSun == [AllPlanets EXCEPT ![1] = Nothing]
Houses(cusps) == Some([cusps |-> cusps, asc |-> 1234])

DefaultEphemeris == [houses |-> Houses(CuspsOf(12)), planets |-> AllPlanets]
AllEphemerides ==
    { [houses |-> h, planets |-> pl] :
        h \in { Nothing } \cup { Houses(CuspsOf(n)) : n \in 0..MaxCusps },
        pl \in { AllPlanets, NoPlanets, WithoutSun } }

FullDaily ==
    [ sunrise |-> << Some("2026-01-01T08:44") >>, sunset |-> << Some("2026-01-01T17:04") >>,
      moonrise |-> << Some("2026-01-01T14:50") >>, moonset |-> << Some("2026-01-01T06:31") >>,
      moon_phase |-> << Some(250) >>, day_length |-> << Some(29972) >> ]
Without(d, key) == [k \in (DOMAIN d) \ {key} |-> d[k]]
AstroOk(daily) == [kind |-> "ok", daily |-> daily]
AstroFail(kind) == [kind |-> kind, daily |-> EmptyDict]
DefaultUpstream == AstroOk(FullDaily)
AllUpstreams ==
    { DefaultUpstream,
      AstroOk(Without(FullDaily, "moon_phase")),
      AstroOk([FullDaily EXCEPT !["moon_phase"] = << Nothing >>]),
      AstroOk([FullDaily EXCEPT !["moon_phase"] = << >>]),
      AstroOk(EmptyDict),
      AstroFail("non200"), AstroFail("error") }

ErrorTexts ==
    { "You exceeded your current quota", "QUOTA EXCEEDED", "Error code: 429",
      "insufficient_quota", "INSUFFICIENT_QUOTA", "Client Not Configured",
      "see platform.openai.com", "OPENAI is down", "Connection error.",
      "Error code: 500", "quot a 42 9 open ai", "" }
DefaultCompletion == [kind |-> "ok", text |-> "  The stars align today.  "]
AllCompletions ==
    { DefaultCompletion, [kind |-> "ok", text |-> None], [kind |-> "ok", text |-> "   "] }
    \cup { [kind |-> "error", text |-> m] : m \in ErrorTexts }

DefaultRnd == << 0, 0, 0, 0, 0 >>
AllRnds == [1..5 -> 0..MaxDraw]

(***************************************************************************)
(* The specifications.  Each runs the same handler and varies the inputs   *)
(* of one concern.                                                         *)
(***************************************************************************)
InitServer ==
    /\ geocode_cache = EmptyDict
    /\ now = ClockStart
    /\ frame = [p \in Procs |-> IdleFrame]
    /\ call = NoCall

Init == openai_client = None /\ InitServer

\* Availability: no credential; the geocoder, the ephemeris and the
\* astronomy service answer in every way.
AvailRequests ==
    { Request("Ana", "1990-06-15", bt, loc, "funny", acc) :
        bt \in {"14:30", "noon"}, loc \in {"Paris, France", "  PARIS, france "},
        acc \in Accepts }

Next ==
    \/ Receive(1, AvailRequests)
    \/ GeoReply(1, AllAnswers)
    \/ Chart(1, AllEphemerides)
    \/ AstroReply(1, AllUpstreams)
    \/ Generate(1, {DefaultCompletion}, {DefaultRnd})
    \/ Return(1)

Spec == Init /\ [][Next]_vars

\* The generator: with and without a credential, every completion.
GenRequests ==
    { Request(n, "1990-06-15", "14:30", "Paris, France", t, acc) :
        n \in Names, t \in {"funny", "Serious Thoughts"}, acc \in Accepts }

InitGenerator == openai_client \in {None, "client"} /\ InitServer

NextGenerator ==
    \/ Receive(1, GenRequests)
    \/ GeoReply(1, {DefaultAnswer})
    \/ Chart(1, {DefaultEphemeris})
    \/ AstroReply(1, {DefaultUpstream})
    \/ Generate(1, AllCompletions, {DefaultRnd})
    \/ Return(1)

SpecGenerator == InitGenerator /\ [][NextGenerator]_vars

\* Validation: every combination of the request's fields.
AllRequests ==
    { Request(n, b, bt, loc, "funny", "application/json") :
        n \in Names, b \in Birthdays, bt \in BirthTimes, loc \in Locations }

NextValidation ==
    \/ Receive(1, AllRequests)
    \/ GeoReply(1, {DefaultAnswer})
    \/ Chart(1, {DefaultEphemeris})
    \/ AstroReply(1, {DefaultUpstream})
    \/ Generate(1, {DefaultCompletion}, {DefaultRnd})
    \/ Return(1)

SpecValidation == Init /\ [][NextValidation]_vars

\* The local fallback: every tone, with and without a name and a natal
\* summary, every sequence of draws.
ToneRequests ==
    { Request(n, "1990-06-15", bt, "Paris, France", t, "application/json") :
        n \in Names, bt \in {"14:30", "noon"}, t \in Tones }

ToneEphemerides ==
    { [houses |-> h, planets |-> pl] :
        h \in { Nothing, Houses(CuspsOf(12)) }, pl \in { NoPlanets, WithoutSun } }

NextFallback ==
    \/ Receive(1, ToneRequests)
    \/ GeoReply(1, {DefaultAnswer})
    \/ Chart(1, ToneEphemerides)
    \/ AstroReply(1, {DefaultUpstream})
    \/ Generate(1, {DefaultCompletion}, AllRnds)
    \/ Return(1)

SpecFallback == Init /\ [][NextFallback]_vars

\* The geocode cache: two requests in flight, the clock passing the entry's
\* lifetime.
GeoRequests ==
    { Request("Ana", "1990-06-15", "14:30", loc, "funny", "application/json") :
        loc \in {"Paris, France", "  PARIS, france "} }

Instants ==
    { t \in { ClockStart + w * GEOCODE_TTL + e : w \in 0..MaxWeeks, e \in {-1, 0} } :
        t >= ClockStart }

NextGeo ==
    \/ \E p \in Procs :
        \/ Receive(p, GeoRequests)
        \/ GeoReply(p, AllAnswers)
        \/ Chart(p, {DefaultEphemeris})
        \/ AstroReply(p, {DefaultUpstream})
        \/ Generate(p, {DefaultCompletion}, {DefaultRnd})
        \/ Return(p)
    \/ Tick(Instants)

SpecGeo == Init /\ [][NextGeo]_vars

\* Concurrency: two requests in flight, valid ones for one location and ones
\* that fail the validation, every answer of the geocoder.
ConcurrentRequests ==
    GeoRequests \cup
    { Request("Ana", "15/06/1990", "14:30", "Paris, France", "funny", "application/json"),
      Request("Ana", "1990-06-15", Absent, "Paris, France", "funny", "application/json"),
      Request("Ana", "1990-06-15", "14:30", "", "funny", "application/json") }

NextConcurrent ==
    \E p \in Procs :
        \/ Receive(p, ConcurrentRequests)
        \/ GeoReply(p, AllAnswers)
        \/ Chart(p, {DefaultEphemeris})
        \/ AstroReply(p, {DefaultUpstream})
        \/ Generate(p, {DefaultCompletion}, {DefaultRnd})
        \/ Return(p)

SpecConcurrent == Init /\ [][NextConcurrent]_vars

\* The zodiac classifier, called with every month and day.
InitZodiac ==
    /\ openai_client = None /\ geocode_cache = EmptyDict /\ now = ClockStart
    /\ frame = [p \in Procs |-> IdleFrame]
    /\ call \in { [fn |-> "zodiac_sign", month |-> m, day |-> d, ret |-> None] :
                    m \in 1..12, d \in 1..31 }

SpecZodiac == InitZodiac /\ [][CallZodiacSign]_vars

\* The naming of a phase, called with every phase in thousandths.
InitPhase ==
    /\ openai_client = None /\ geocode_cache = EmptyDict /\ now = ClockStart
    /\ frame = [p \in Procs |-> IdleFrame]
    /\ call \in { [fn |-> "phase_title", phase |-> k, ret |-> None] : k \in 0..MaxPhase }

SpecPhase == InitPhase /\ [][CallPhaseTitle]_vars

\* The largest longitude, in hundredths of a degree, of the first cusp in the
\* house specification.
MaxOffset == 2999

\* twelve cusps 30 degrees apart, the first at d hundredths of a degree
EqualHouses(d) == [i \in 1..12 |-> (d + 3000 * (i - 1)) % 36000]

\* the longitudes that are no rounding tie
Offsets == { d \in 0..MaxOffset : d % 10 # 5 }

\* The house cusps, called with cusps at every such longitude of the circle.
InitCusps ==
    /\ openai_client = None /\ geocode_cache = EmptyDict /\ now = ClockStart
    /\ frame = [p \in Procs |-> IdleFrame]
    /\ call \in { [fn |-> "compute_house_cusps", birth_time |-> "14:30",
                    cusps |-> EqualHouses(d), ret |-> << >>] : d \in Offsets }

SpecCusps == InitCusps /\ [][CallHouseCusps]_vars

\* The astronomy service's answers, a new moon's phase 0 and a lone field
\* among them.
AstroUpstreams ==
    AllUpstreams \cup
    { AstroOk([FullDaily EXCEPT !["moon_phase"] = << Some(0) >>]),
      AstroOk(Without(FullDaily, "sunrise")),
      AstroOk([FullDaily EXCEPT !["sunset"] = << Nothing >>, !["moon_phase"] = << >>]),
      AstroOk([moon_phase |-> << Some(999), Some(1) >>]) }

\* The natal summaries local_fallback is given: none, empty, two parts, one
\* part, a trailing blank segment, blank segments only.
Summaries ==
    { None, "", "Ascendant: leo (12.3deg); Planets: Sun in gemini (24.1deg)",
      "Planets: Moon in aries (3.0deg)", "Ascendant: leo (12.3deg); ", " ; " }

\* The fallback generator, called with every such summary and every draw.
InitFallbackText ==
    /\ openai_client = None /\ geocode_cache = EmptyDict /\ now = ClockStart
    /\ frame = [p \in Procs |-> IdleFrame]
    /\ call \in { [fn |-> "local_fallback", name |-> n, sign |-> "leo", tone |-> t,
                    natal_summary |-> ns, rnd |-> r, ret |-> NoFallback] :
                    n \in {None, "Ana"}, t \in {None, "funny", "Serious Thoughts", "inspiring"},
                    ns \in Summaries, r \in AllRnds }

SpecFallbackText == InitFallbackText /\ [][CallLocalFallback]_vars

\* GET /moon, day after day.
Days == { ClockStart + d * SecondsPerDay : d \in 0..MaxDays }

NextMoon == moon_phase \/ Tick({now + SecondsPerDay} \cap Days)

SpecMoon == Init /\ [][NextMoon]_vars

\* fetch_astronomy, day after day.
NextAstronomy == CallFetchAstronomy(AstroUpstreams) \/ Tick({now + SecondsPerDay} \cap Days)

SpecAstronomy == Init /\ [][NextAstronomy]_vars

(***************************************************************************)
(* The properties.                                                         *)
(***************************************************************************)
Range(seq) == { seq[i] : i \in DOMAIN seq }

FallbackKeywords == {"quota", "429", "insufficient_quota", "not configured", "openai"}

C2_Answered200HasHoroscopeAndMoonPhase ==
    \A p \in Procs :
        LET f == frame[p] IN
        ( /\ f.pc = "done"
          /\ openai_client = None
          /\ f.bday # NoDate /\ Truthy(f.birth_time) /\ Truthy(f.birth_location)
          /\ f.response.status = 200
          /\ f.response.kind = "json" ) =>
            /\ f.response.horoscope # ""
            /\ "moon_phase" \in DOMAIN f.response.astronomy

\* C3 (as stated): a request whose geocoding failed (non-200, no candidate,
\* network error or timeout) ends with a 502 or a 400 and no horoscope is
\* generated for it.  A finished request without coordinates is one that
\* was refused before geocoding or whose geocoding failed.
C3_GeocodingFailureEndsTheRequest ==
    \A p \in Procs :
        LET f == frame[p] IN
        (f.pc = "done" /\ f.lat = Nothing) =>
            /\ f.response.status \in {400, 502}
            /\ f.response.horoscope = ""
            /\ ~f.fallback.used

BothRequired == "Both birth_time and birth_location are required"

\* C4 (as stated): every request whose birth_time is missing or empty is
\* answered 400 with the message that both birth_time and birth_location are
\* required, whatever the other fields are.
C4_MissingBirthTimeAlwaysBothRequired ==
    \A p \in Procs :
        LET f == frame[p] IN
        (f.pc = "done" /\ ~Truthy(f.birth_time)) =>
            f.response.status = 400 /\ f.response.detail = BothRequired

\* C4: a request whose birth_time is missing or empty is answered 400; the
\* message is that both birth_time and birth_location are required when the
\* birthday parses, and "Invalid birthday format" when it does not.
C4_MissingBirthTimeIs400 ==
    \A p \in Procs :
        LET f == frame[p] IN
        (f.pc = "done" /\ ~Truthy(f.birth_time)) =>
            /\ f.response.status = 400
            /\ f.response.detail =
                  IF date_fromisoformat(f.birthday) = NoDate
                  THEN "Invalid birthday format" ELSE BothRequired

\* a request with a good birthday and a location but no birth_time was refused
C4_Witness ==
    \E p \in Procs :
        /\ frame[p].pc = "done"
        /\ ~Truthy(frame[p].birth_time)
        /\ Truthy(frame[p].birth_location)
        /\ frame[p].bday # NoDate
        /\ frame[p].response.detail = BothRequired

\* The Western tropical ranges: sign, first month and day, last month and day.
TropicalRanges ==
    << << "aries", 3, 21, 4, 19 >>,        << "taurus", 4, 20, 5, 20 >>,
       << "gemini", 5, 21, 6, 20 >>,       << "cancer", 6, 21, 7, 22 >>,
       << "leo", 7, 23, 8, 22 >>,          << "virgo", 8, 23, 9, 22 >>,
       << "libra", 9, 23, 10, 22 >>,       << "scorpio", 10, 23, 11, 21 >>,
       << "sagittarius", 11, 22, 12, 21 >>, << "capricorn", 12, 22, 1, 19 >>,
       << "aquarius", 1, 20, 2, 18 >>,     << "pisces", 2, 19, 3, 20 >> >>

InRange(r, month, day) ==
    \/ month = r[2] /\ day >= r[3]
    \/ month = r[4] /\ day <= r[5]

\* the day before a month-and-day, within the 31-day months the function is
\* total over
DayBefore(month, day) ==
    IF day > 1 THEN << month, day - 1 >>
    ELSE << (IF month = 1 THEN 12 ELSE month - 1), 31 >>

\* C5: for month in 1..12 and day in 1..31, zodiac_sign returns the sign of
\* the one tropical range the pair lies in: exactly one range holds for the
\* pair, so a range's first day belongs to the later sign and the day before
\* it to the earlier one (Mar 20 is pisces, Mar 21 is aries).
C5_ZodiacSignIsTheTropicalRange ==
    (call.fn = "zodiac_sign" /\ call.ret # None) =>
        /\ Cardinality({ i \in 1..12 : InRange(TropicalRanges[i], call.month, call.day) }) = 1
        /\ \A i \in 1..12 :
              InRange(TropicalRanges[i], call.month, call.day) <=> call.ret = TropicalRanges[i][1]
        /\ \A i \in 1..12 :
              LET r == TropicalRanges[i]
                  earlier == TropicalRanges[IF i = 1 THEN 12 ELSE i - 1]
              IN  /\ (call.month = r[2] /\ call.day = r[3]) => call.ret = r[1]
                  /\ (<< call.month, call.day >> = DayBefore(r[2], r[3])) => call.ret = earlier[1]

\* the classifier answered aries for March 21, the first day of its range
C5_Witness ==
    call.fn = "zodiac_sign" /\ call.month = 3 /\ call.day = 21 /\ call.ret = "aries"

\* The eight phase names in lunar order.
LunarOrder ==
    << "New Moon", "Waxing Crescent", "First Quarter", "Waxing Gibbous",
       "Full Moon", "Waning Gibbous", "Last Quarter", "Waning Crescent" >>

\* C6: a phase of k thousandths, k in 0..999, is named by the bucket of
\* width 1/8 it lies in, the buckets being centred on 0, 1/8, ..., 7/8 and
\* named in lunar order, so that the New Moon bucket is [0.9375, 1) with
\* [0, 0.0625): 0.0 and 0.999 are both "New Moon".
C6_PhaseNameIsTheEighthBucket ==
    (call.fn = "phase_title" /\ call.ret # None /\ call.phase <= 999) =>
        /\ call.ret = LunarOrder[(((call.phase * 10 + 625) \div 1250) % 8) + 1]
        /\ Cardinality({ i \in 1..8 : LunarOrder[i] = call.ret }) = 1
        /\ (call.phase \in {0, 999} => call.ret = "New Moon")

\* the phase 0.999 was named
C6_Witness ==
    call.fn = "phase_title" /\ call.phase = 999 /\ call.ret = "New Moon"

\* C7 (as stated): the moon_phase GET /moon returns for a UTC date lies in
\* [0, 1): never negative and, after the rounding to 3 decimals, never 1.0.
C7_MoonPhaseBelowOne ==
    call.fn = "moon_phase" =>
        call.astronomy.moon_phase >= 0 /\ call.astronomy.moon_phase < 1000

\* C8 (as stated): the houses a JSON answer carries are exactly 12 entries
\* numbered 1..12 in order, or none; never a partial list.
C8_HousesAreTwelveOrNone ==
    \A p \in Procs :
        LET houses == frame[p].response.houses IN
        (frame[p].pc = "done" /\ frame[p].response.kind = "json") =>
            \/ houses = << >>
            \/ Len(houses) = 12 /\ \A n \in 1..12 : houses[n].house = n

\* geocode_location is entered by the request p in this step
Looked(p) == frame[p].pc = "idle" /\ frame'[p].pc \in {"chart", "geocoding"}

\* the geocoder's answer reaches the request p in this step
Answered(p) == frame[p].pc = "geocoding" /\ frame'[p].pc # "geocoding"

\* C9 (as stated): a call less than 604800 s after the entry of its
\* normalized text was stored returns the stored (lat, lon, timezone)
\* without an upstream request, and a call 604800 s or more after it issues
\* an upstream request and replaces the entry.
C9_ExpiredCallReplacesTheEntry ==
    [][ \A p \in Procs :
          /\ Looked(p) =>
                LET key == GeoKey(frame'[p].birth_location) IN
                key \in DOMAIN geocode_cache =>
                    IF now - geocode_cache[key][4] < 604800
                    THEN /\ frame'[p].pc = "chart"
                         /\ << frame'[p].lat, frame'[p].lon, frame'[p].tz_name >> =
                               << Some(geocode_cache[key][1]), Some(geocode_cache[key][2]),
                                  geocode_cache[key][3] >>
                    ELSE frame'[p].pc = "geocoding"
          /\ (Answered(p) /\ frame[p].cached # Nothing) =>
                /\ frame[p].key \in DOMAIN geocode_cache'
                /\ geocode_cache'[frame[p].key][4] = frame[p].started
      ]_vars

\* C9: a call whose normalized text has an entry stamped less than 604800 s
\* before the call returns the entry's (lat, lon, timezone) without an
\* upstream request and leaves the cache as it is; any other call issues an
\* upstream request.  When that request succeeds the entry of the text
\* becomes the answer stamped with the time the call began, the other
\* entries staying; when it fails the cache stays as it is, an expired entry
\* included.
C9_EntryServesForSevenDays ==
    [][ \A p \in Procs :
          /\ Looked(p) =>
                LET key == GeoKey(frame'[p].birth_location) IN
                /\ geocode_cache' = geocode_cache
                /\ IF key \in DOMAIN geocode_cache /\ now - geocode_cache[key][4] < 604800
                   THEN /\ frame'[p].pc = "chart"
                        /\ << frame'[p].lat, frame'[p].lon, frame'[p].tz_name >> =
                              << Some(geocode_cache[key][1]), Some(geocode_cache[key][2]),
                                 geocode_cache[key][3] >>
                   ELSE /\ frame'[p].pc = "geocoding"
                        /\ frame'[p].key = key /\ frame'[p].started = now
          /\ Answered(p) =>
                IF frame'[p].pc = "chart"
                THEN /\ DOMAIN geocode_cache' = DOMAIN geocode_cache \cup {frame[p].key}
                     /\ geocode_cache'[frame[p].key] =
                           << frame'[p].lat[1], frame'[p].lon[1], frame'[p].tz_name,
                              frame[p].started >>
                     /\ \A k \in DOMAIN geocode_cache \ {frame[p].key} :
                           geocode_cache'[k] = geocode_cache[k]
                ELSE geocode_cache' = geocode_cache
      ]_vars

\* a call found an entry stored a full 604800 s before it and asked upstream
C9_Witness ==
    \E p \in Procs :
        /\ frame[p].pc = "geocoding"
        /\ frame[p].cached # Nothing
        /\ frame[p].started - frame[p].cached[1][4] >= 604800

\* the bucket of a tone
TemplateBucket(tone) ==
    IF tone \in {Absent, None, ""} THEN "playful"
    ELSE IF Contains("serious", lower(tone)) THEN "serious"
    ELSE IF Contains("inspir", lower(tone)) THEN "inspirational"
    ELSE "playful"

\* C10: the fallback's opening, advice and why all come from the lists of
\* one bucket: serious when the lowercased tone contains "serious" (also
\* when it contains "inspir"), inspirational when it contains "inspir" and
\* not "serious", playful for every other tone, absent and empty included.
C10_SentencesComeFromTheTonesBucket ==
    \A p \in Procs :
        LET f == frame[p]
            fb == f.fallback
            bucket == TemplateBucket(f.tone)
        IN  fb.used =>
              /\ fb.opening \in Range(Openings(bucket, fb.display, f.sign, fb.transit, fb.chart_feature))
              /\ fb.advice \in Range(Advices(bucket, fb.display, f.sign, fb.transit, fb.chart_feature))
              /\ fb.why \in Range(Whys(bucket, fb.display, f.sign, fb.transit, fb.chart_feature))
              /\ \A other \in {"serious", "inspirational", "playful"} \ {bucket} :
                    /\ fb.opening \notin Range(Openings(other, fb.display, f.sign, fb.transit, fb.chart_feature))
                    /\ fb.advice \notin Range(Advices(other, fb.display, f.sign, fb.transit, fb.chart_feature))
                    /\ fb.why \notin Range(Whys(other, fb.display, f.sign, fb.transit, fb.chart_feature))

\* a tone with both words was answered from the serious lists
C10_Witness ==
    \E p \in Procs :
        /\ frame[p].fallback.used
        /\ frame[p].tone = "Inspired but SERIOUS"
        /\ frame[p].fallback.opening \in
              Range(serious_openings(frame[p].fallback.display, frame[p].sign,
                                     frame[p].fallback.transit, frame[p].fallback.chart_feature))

\* C11 (as stated): every entry compute_house_cusps returns for a cusp
\* longitude in [0, 360) has the sign of the 30-degree sector the longitude
\* lies in and a degree, the longitude modulo 30 rounded to 1 decimal, in
\* [0, 30): never 30.0.  Degrees are in tenths here.
C11_CuspSignAndDegreeBelowThirty ==
    (call.fn = "compute_house_cusps" /\ call.ret # << >>) =>
        /\ call.ret[1] = "ok"
        /\ Len(call.ret[2]) = 12
        /\ \A n \in 1..12 :
              LET entry == call.ret[2][n]
                  longitude == call.cusps[n]
              IN  /\ entry.sign = SignNames[(longitude \div 3000) + 1]
                  /\ entry.degree >= 0
                  /\ entry.degree < 300

\* the first element of the list the upstream gave under a key, << >> for none
Fetched(daily, key) ==
    IF key \in DOMAIN daily /\ daily[key] # << >> THEN daily[key][1] ELSE << >>

OtherFields == {"sunrise", "sunset", "moonrise", "moonset", "day_length"}

C13_TextIsTheDrawnSentencesInOrder ==
    (call.fn = "local_fallback" /\ call.ret.used) =>
        LET ret == call.ret
            exists == call.natal_summary \notin {None, ""}
            segments == IF exists THEN SelectSeq(Split(call.natal_summary, ";"), NonBlank)
                        ELSE << >>
            k == IF segments # << >> THEN 1 ELSE 0
            transit == Choice(transit_keywords, call.rnd[1])
            feature == IF k = 1 THEN Choice(segments, call.rnd[2])
                       ELSE "Ascendant in " \o call.sign
            bucket == TemplateBucket(call.tone)
            opening == Choice(Openings(bucket, ret.display, call.sign, transit, feature), call.rnd[2 + k])
            advice == Choice(Advices(bucket, ret.display, call.sign, transit, feature), call.rnd[3 + k])
            why == Choice(Whys(bucket, ret.display, call.sign, transit, feature), call.rnd[4 + k])
            parenthetical == IF exists THEN " (" \o call.natal_summary \o ")" ELSE ""
        IN  /\ ret.transit = transit
            /\ ret.chart_feature = feature
            /\ (k = 1 => ret.chart_feature \in Range(segments))
            /\ ret.opening = opening /\ ret.advice = advice /\ ret.why = why
            /\ ret.natal_hint = parenthetical
            /\ ret.text = opening \o " " \o advice \o parenthetical \o " " \o why

\* the second segment of a two-part summary was drawn and the summary quoted
C13_Witness ==
    /\ call.fn = "local_fallback" /\ call.ret.used
    /\ call.ret.chart_feature = " Planets: Sun in gemini (24.1deg)"
    /\ call.ret.natal_hint = " (Ascendant: leo (12.3deg); Planets: Sun in gemini (24.1deg))"
    /\ call.rnd[3] # call.rnd[2]

\* the request's fields pass the validation
ValidFields(f) ==
    /\ date_fromisoformat(f.birthday) # NoDate
    /\ f.birth_time \notin {None, ""}
    /\ f.birth_location \notin {None, ""}

\* the coordinates and timezone of one 200 answer with a candidate
SingleResponses ==
    { << a.lat, a.lon, IF a.tz = None THEN "UTC" ELSE a.tz >> : a \in { b \in AllAnswers : b.kind = "ok" } }

\* a request that fails the validation never waits for the geocoder and is
\* refused with a 400; every cache entry is one single answer's fields
C14_State ==
    /\ \A p \in Procs :
          /\ frame[p].pc \notin {"idle", "done"} => ValidFields(frame[p])
          /\ (frame[p].pc = "done" /\ ~ValidFields(frame[p])) =>
                frame[p].response.status = 400 /\ frame[p].lat = << >>
    /\ \A key \in DOMAIN geocode_cache :
          << geocode_cache[key][1], geocode_cache[key][2], geocode_cache[key][3] >> \in SingleResponses

\* the cache changes only in the step in which a 200 answer with a candidate
\* reaches a request, and then only at that request's key
C14_Step ==
    /\ geocode_cache' # geocode_cache =>
          \E p \in Procs :
              /\ Answered(p) /\ frame'[p].pc = "chart"
              /\ DOMAIN geocode_cache' = DOMAIN geocode_cache \cup {frame[p].key}
              /\ geocode_cache'[frame[p].key] =
                    << frame'[p].lat[1], frame'[p].lon[1], frame'[p].tz_name, frame[p].started >>
              /\ \A k \in DOMAIN geocode_cache \ {frame[p].key} :
                    geocode_cache'[k] = geocode_cache[k]
    /\ \A p \in Procs :
          /\ (Answered(p) /\ frame'[p].pc # "chart") => geocode_cache' = geocode_cache
          /\ (frame[p].pc = "idle" /\ frame'[p].pc = "done") =>
                /\ geocode_cache' = geocode_cache
                /\ ~ValidFields(frame'[p])

\* C14: under every interleaving of two requests the geocode cache is
\* written only when a 200 answer with a candidate reaches geocode_location;
\* a request that fails the validation issues no geocoding request, a
\* request whose geocoding fails leaves the cache unchanged, and every entry
\* holds the latitude, longitude and timezone of one single answer (the last
\* write wins, the fields of two answers are never mixed).
C14_CacheWrittenOnlyBySuccessfulGeocoding ==
    [] C14_State /\ [][C14_Step]_vars

\* two requests for one location both asked the geocoder, got different
\* answers, and the cache holds the later one's
C14_Witness ==
    \E p, q \in Procs :
        /\ p # q
        /\ frame[p].pc = "chart" /\ frame[q].pc = "chart"
        /\ GeoKey(frame[p].birth_location) = GeoKey(frame[q].birth_location)
        /\ frame[p].lat # frame[q].lat
        /\ geocode_cache[GeoKey(frame[q].birth_location)][1] = frame[q].lat[1]

====
